---- MODULE Spec2Model ----
(***************************************************************************)
(* bsv-trust: the Bond and Escrow covenants (src/src/contracts), the       *)
(* ledger that holds their UTXOs, the command-line actions that deploy and *)
(* spend them (deploy-bond, deploy-escrow, release-bond, slash-bond,       *)
(* approve-escrow, timeout-escrow), the ASSERT1 records (assert,           *)
(* verify-assert) and the viewer.                                          *)
(***************************************************************************)
EXTENDS Integers, Sequences, FiniteSets, TLC

\* ------------------------------------------------------------------ bounds
MaxHeight == 2

MaxReports == 2

\* ------------------------------------------------------- program constants
RELEASE_FEE == 1000
SLASH_FEE == 500
ESCROW_FEE == 500
DEFAULT_AMOUNT == 10000

VARIABLES
    height,     \* the chain's current block height
    bond,       \* the deployed Bond: its @prop fields, its UTXO value and state
    escrow,     \* the deployed Escrow: its @prop fields, its UTXO value and state
    spends,     \* per contract, the number of spending transactions the ledger accepted
    att,        \* the spending transaction last submitted straight to the ledger
    cli,        \* the command-line action in progress
    asrt,       \* the assertion transaction last published (or altered copy of it)
    ver,        \* the reports of the verifications run on that assertion
    view,       \* what the viewer's last scan shows
    dep,        \* the deployment in progress, the UTXO and the state record it made
    files       \* the state records deploy-escrow.cjs left in escrows/

vars == <<height, bond, escrow, spends, att, cli, asrt, ver, view, dep, files>>

\* -------------------------------------------------------------------- keys
Keys == {"bondholder", "slasher", "requester", "worker"}

toPublicKey(k) == <<"pub", k>>

toAddress(k) == <<"pkh", k>>

SlashDestPkh == <<"pkh", "slashDest">>

\* A signature binds the signing key to the transaction it was made over.
Sign(k, tx) == [by |-> toPublicKey(k), over |-> tx]

checkSig_wrongTx(sig, pub, tx) == sig.over = tx

checkSig(sig, pub, tx) == sig.by = pub /\ sig.over = tx

\* ------------------------------------------------ output commitment model
buildPublicKeyHashOutput(pkh, amount) == <<[pkh |-> pkh, satoshis |-> amount]>>

\* scrypt-ts derives the change output from the spending transaction itself.
buildChangeOutput(tx) ==
    IF tx.changeAmount > 0
    THEN buildPublicKeyHashOutput(tx.changeAddress, tx.changeAmount)
    ELSE <<>>

hash256(bytes) == <<"hash256", bytes>>

hashOutputs(tx) == hash256(tx.outputs)

\* Input sequence numbers: the default disables nLockTime, 0xFFFFFFFE allows it.
SEQ_FINAL == "0xFFFFFFFF"

SEQ_LOCKTIME == "0xFFFFFFFE"

\* A spending transaction: one payout output, then the change output if any.
BuildTx(locktime, sequence, payout, changeAddress, changeAmount) ==
    [locktime |-> locktime,
     sequence |-> sequence,
     outputs |-> <<payout>> \o (IF changeAmount > 0
                                THEN <<[pkh |-> changeAddress, satoshis |-> changeAmount]>>
                                ELSE <<>>),
     changeAddress |-> changeAddress,
     changeAmount |-> changeAmount]

\* ------------------------------------------------------------ Bond (bond.ts)
NewBond(lockUntil, value) ==
    [bondholderPkh |-> toAddress("bondholder"),
     bondholderPub |-> toPublicKey("bondholder"),
     lockUntil |-> lockUntil,
     slasherPub |-> toPublicKey("slasher"),
     slashDestPkh |-> SlashDestPkh,
     value |-> value,
     state |-> "Open"]

Bond_release_noLock(b, sig, tx) ==
    IF ~checkSig(sig, b.bondholderPub, tx) THEN "invalid bondholder signature"
    ELSE IF hashOutputs(tx) # hash256(buildPublicKeyHashOutput(b.bondholderPkh, b.value)
                                        \o buildChangeOutput(tx))
         THEN "hashOutputs mismatch"
    ELSE "ok"

Bond_release_strictLock(b, sig, tx) ==
    IF ~checkSig(sig, b.bondholderPub, tx) THEN "invalid bondholder signature"
    ELSE IF ~(tx.locktime > b.lockUntil) THEN "bond still locked"
    ELSE IF hashOutputs(tx) # hash256(buildPublicKeyHashOutput(b.bondholderPkh, b.value)
                                        \o buildChangeOutput(tx))
         THEN "hashOutputs mismatch"
    ELSE "ok"

Bond_release_anyPayout(b, sig, tx) ==
    IF ~checkSig(sig, b.bondholderPub, tx) THEN "invalid bondholder signature"
    ELSE IF ~(tx.locktime >= b.lockUntil) THEN "bond still locked"
    ELSE IF hashOutputs(tx) # hash256(buildPublicKeyHashOutput(b.bondholderPkh,
                                                               tx.outputs[1].satoshis)
                                        \o buildChangeOutput(tx))
         THEN "hashOutputs mismatch"
    ELSE "ok"

Bond_release(b, sig, tx) ==
    IF ~checkSig(sig, b.bondholderPub, tx) THEN "invalid bondholder signature"
    ELSE IF ~(tx.locktime >= b.lockUntil) THEN "bond still locked"
    ELSE IF hashOutputs(tx) # hash256(buildPublicKeyHashOutput(b.bondholderPkh, b.value)
                                        \o buildChangeOutput(tx))
         THEN "hashOutputs mismatch"
    ELSE "ok"

Bond_slash_locked(b, sig, tx) ==
    IF ~checkSig(sig, b.slasherPub, tx) THEN "invalid slasher signature"
    ELSE IF ~(tx.locktime >= b.lockUntil) THEN "bond still locked"
    ELSE IF hashOutputs(tx) # hash256(buildPublicKeyHashOutput(b.slashDestPkh, b.value)
                                        \o buildChangeOutput(tx))
         THEN "hashOutputs mismatch"
    ELSE "ok"

Bond_slash(b, sig, tx) ==
    IF ~checkSig(sig, b.slasherPub, tx) THEN "invalid slasher signature"
    ELSE IF hashOutputs(tx) # hash256(buildPublicKeyHashOutput(b.slashDestPkh, b.value)
                                        \o buildChangeOutput(tx))
         THEN "hashOutputs mismatch"
    ELSE "ok"

\* -------------------------------------------------------- Escrow (escrow.ts)
NewEscrow(timeoutBlock, value) ==
    [requesterPub |-> toPublicKey("requester"),
     requesterPkh |-> toAddress("requester"),
     workerPub |-> toPublicKey("worker"),
     workerPkh |-> toAddress("worker"),
     timeoutBlock |-> timeoutBlock,
     value |-> value,
     state |-> "Open"]

Escrow_approve(e, sig, amount, tx) ==
    IF ~checkSig(sig, e.requesterPub, tx) THEN "invalid requester signature"
    ELSE IF ~(amount > 0 /\ amount <= e.value) THEN "invalid amount"
    ELSE IF hashOutputs(tx) # hash256(buildPublicKeyHashOutput(e.workerPkh, amount))
         THEN "hashOutputs mismatch"
    ELSE "ok"

Escrow_refund_belowValue(e, sig, amount, tx) ==
    IF ~checkSig(sig, e.workerPub, tx) THEN "invalid worker signature"
    ELSE IF ~(amount > 0 /\ amount < e.value) THEN "invalid amount"
    ELSE IF hashOutputs(tx) # hash256(buildPublicKeyHashOutput(e.requesterPkh, amount))
         THEN "hashOutputs mismatch"
    ELSE "ok"

Escrow_refund(e, sig, amount, tx) ==
    IF ~checkSig(sig, e.workerPub, tx) THEN "invalid worker signature"
    ELSE IF ~(amount > 0 /\ amount <= e.value) THEN "invalid amount"
    ELSE IF hashOutputs(tx) # hash256(buildPublicKeyHashOutput(e.requesterPkh, amount))
         THEN "hashOutputs mismatch"
    ELSE "ok"

Escrow_timeout_noLock(e, sig, amount, tx) ==
    IF ~checkSig(sig, e.requesterPub, tx) THEN "invalid requester signature"
    ELSE IF ~(amount > 0 /\ amount <= e.value) THEN "invalid amount"
    ELSE IF hashOutputs(tx) # hash256(buildPublicKeyHashOutput(e.requesterPkh, amount))
         THEN "hashOutputs mismatch"
    ELSE "ok"

Escrow_timeout(e, sig, amount, tx) ==
    IF ~checkSig(sig, e.requesterPub, tx) THEN "invalid requester signature"
    ELSE IF ~(tx.locktime >= e.timeoutBlock) THEN "escrow not yet timed out"
    ELSE IF ~(amount > 0 /\ amount <= e.value) THEN "invalid amount"
    ELSE IF hashOutputs(tx) # hash256(buildPublicKeyHashOutput(e.requesterPkh, amount))
         THEN "hashOutputs mismatch"
    ELSE "ok"

\* ------------------------------------------------------------------ ledger
\* The ledger's single-spend rule: a transaction spending a spent output is rejected.
Unspent_always(u) == TRUE

Unspent(u) == u.state = "Open"

BondVerify(b, op, sig, tx) ==
    IF op = "release" THEN Bond_release(b, sig, tx) ELSE Bond_slash(b, sig, tx)

EscrowVerify(e, op, sig, amount, tx) ==
    CASE op = "approve" -> Escrow_approve(e, sig, amount, tx)
      [] op = "refund" -> Escrow_refund(e, sig, amount, tx)
      [] OTHER -> Escrow_timeout(e, sig, amount, tx)

BondTerminal(op) == IF op = "release" THEN "Released" ELSE "Slashed"

EscrowTerminal(op) ==
    CASE op = "approve" -> "Approved"
      [] op = "refund" -> "Refunded"
      [] OTHER -> "TimedOut"

LedgerEscrow_respend(op, sig, amount, tx) == EscrowVerify(escrow, op, sig, amount, tx)

\* What the ledger answers to a broadcast transaction spending the Bond UTXO.
LedgerBond(op, sig, tx) ==
    IF ~Unspent(bond) THEN "already spent" ELSE BondVerify(bond, op, sig, tx)

LedgerEscrow(op, sig, amount, tx) ==
    IF ~Unspent(escrow) THEN "already spent" ELSE EscrowVerify(escrow, op, sig, amount, tx)

BondAfter(op, res) ==
    IF res = "ok"
    THEN [bond EXCEPT !.state = BondTerminal(op)]
    ELSE bond

EscrowAfter(op, res) ==
    IF res = "ok"
    THEN [escrow EXCEPT !.state = EscrowTerminal(op)]
    ELSE escrow

Count(res) == IF res = "ok" THEN 1 ELSE 0

\* ------------------------------------------------- transactions by any party
NoTx ==
    [locktime |-> 0, sequence |-> "", outputs |-> <<>>, changeAddress |-> <<>>,
     changeAmount |-> 0]

NoSig == [by |-> <<>>, over |-> NoTx]

NoAttempt ==
    [contract |-> "none", op |-> "none", signer |-> "none", amount |-> 0,
     tx |-> NoTx, res |-> "none", before |-> "none"]

\* built is the transaction the run's builder made, tx the one handed to the broadcast.
NoRun ==
    [pc |-> "idle", kind |-> "none", wallet |-> "none", currentHeight |-> -1,
     built |-> NoTx, tx |-> NoTx, amount |-> 0, sig |-> NoSig, out |-> ""]

\* No ECDSA signature: what bytes that are not a DER signature stand for.
NoEcSig == [by |-> <<>>, over |-> <<>>]

\* No funding transaction: the values of its inputs and of its outputs.
NoFunding == [inputs |-> <<>>, outputs |-> <<>>]

RECURSIVE Sum(_)
\* utxos.reduce((s, u) => s + u.value, 0)
Sum(values) == IF values = <<>> THEN 0 ELSE values[1] + Sum(Tail(values))

\* No assertion transaction published yet.
\* warned: the run printed the spent-bond warning; funding: the values of the inputs
\* and outputs of its transaction; sent counts its calls of the broadcast; bondSpent
\* remembers whether the Bond's output was spent when the run started.
NoAssert ==
    [out |-> "none", script |-> <<>>, pubKey |-> <<>>, signer |-> "none",
     args |-> [bondTxid |-> <<>>, topic |-> <<>>, claim |-> <<>>], tampered |-> FALSE,
     warned |-> FALSE, bondSpent |-> FALSE, funding |-> NoFunding, sent |-> 0]

\* No page rendered yet.
NoView ==
    [out |-> "none", bonds |-> <<>>, assertions |-> <<>>, escrows |-> <<>>,
     scanned |-> 0, spent |-> FALSE]

\* Only a transaction whose lock time has been reached is taken by the ledger.
LockTimes == 0..height

Outsider == toAddress("outsider")

\* No change output, or one of a satoshi.
ChangeAmounts == {0, 1}

BondPayouts ==
    {[pkh |-> p, satoshis |-> s] :
        p \in {bond.bondholderPkh, bond.slashDestPkh, Outsider},
        s \in {bond.value - RELEASE_FEE, bond.value - SLASH_FEE, bond.value}}

EscrowAmounts == {0, escrow.value - ESCROW_FEE, escrow.value, escrow.value + 1}

EscrowPayouts ==
    {[pkh |-> p, satoshis |-> s] :
        p \in {escrow.requesterPkh, escrow.workerPkh, Outsider},
        s \in {escrow.value - ESCROW_FEE, escrow.value}}

\* A rejected transaction changes nothing a command-line action reads: the rejected
\* ones are explored while no command-line action runs.
SubmitBond(op) ==
    /\ att = NoAttempt
    /\ \E k \in Keys, lt \in LockTimes, payout \in BondPayouts, chg \in ChangeAmounts :
        LET tx == BuildTx(lt, SEQ_LOCKTIME, payout, toAddress(k), chg)
            res == LedgerBond(op, Sign(k, tx), tx)
        IN /\ cli = NoRun \/ res = "ok"
           /\ att' = [contract |-> "bond", op |-> op, signer |-> k, amount |-> payout.satoshis,
                      tx |-> tx, res |-> res, before |-> bond.state]
           /\ bond' = BondAfter(op, res)
           /\ spends' = [spends EXCEPT !.bond = @ + Count(res)]
    /\ UNCHANGED <<height, escrow, cli, asrt, ver, view, dep, files>>

SubmitEscrow(op) ==
    /\ att = NoAttempt
    /\ \E k \in Keys, lt \in LockTimes, amount \in EscrowAmounts,
          payout \in EscrowPayouts, chg \in ChangeAmounts :
        LET tx == BuildTx(lt, SEQ_LOCKTIME, payout, toAddress(k), chg)
            res == LedgerEscrow(op, Sign(k, tx), amount, tx)
        IN /\ cli = NoRun \/ res = "ok"
           /\ att' = [contract |-> "escrow", op |-> op, signer |-> k, amount |-> amount,
                      tx |-> tx, res |-> res, before |-> escrow.state]
           /\ escrow' = EscrowAfter(op, res)
           /\ spends' = [spends EXCEPT !.escrow = @ + Count(res)]
    /\ UNCHANGED <<height, bond, cli, asrt, ver, view, dep, files>>

ReleaseAttempt == SubmitBond("release")

SlashAttempt == SubmitBond("slash")

ApproveAttempt == SubmitEscrow("approve")

RefundAttempt == SubmitEscrow("refund")

TimeoutAttempt == SubmitEscrow("timeout")

\* The submitting party is done with its transaction.
EndAttempt ==
    /\ att # NoAttempt
    /\ att' = NoAttempt
    /\ UNCHANGED <<height, bond, escrow, spends, cli, asrt, ver, view, dep, files>>

\* A block is mined.
Tick ==
    /\ height < MaxHeight
    /\ height' = height + 1
    /\ UNCHANGED <<bond, escrow, spends, att, cli, asrt, ver, view, dep, files>>

\* ------------------------------------------------------ command-line actions
CliKinds == {"release", "slash", "approve", "timeout"}

Null == [txid |-> ""]

OracleReplies == {"answer", "error"}

\* httpGet(.../spent).catch(() => null): the spending txid, null on 404 (unspent)
\* and null when the request fails.
httpGetSpent(u, reply) ==
    IF reply = "answer" /\ ~Unspent(u) THEN [txid |-> "spender"] ELSE Null

\* spentInfo && spentInfo.txid
IsSpentInfo(spentInfo) == spentInfo # Null /\ spentInfo.txid # ""

\* TestWallet(key): the signer answers with the signature of the key it was built with.
getSignatures(key, tx) == <<[pubKey |-> toPublicKey(key), sig |-> Sign(key, tx)]>>

\* sigResps.find(s => s.pubKey === pub): the first match, none when undefined.
find(sigResps, pub) == SelectSeq(sigResps, LAMBDA s : s.pubKey = pub)

\* release-bond.cjs: sigResps.find(...).sig; no signature when .sig of undefined throws
SigOfKey(sigResps, key) ==
    LET match == find(sigResps, toPublicKey(key))
    IN IF match = <<>> THEN <<>> ELSE <<match[1].sig>>

\* slash-bond.cjs, approve-escrow.cjs, timeout-escrow.cjs: fall back to the first signature
SigOfKeyOrFirst(sigResps, key) ==
    LET match == find(sigResps, toPublicKey(key))
    IN IF match = <<>> /\ Len(sigResps) > 0 THEN <<sigResps[1].sig>>
       ELSE IF match = <<>> THEN <<>>
       ELSE <<match[1].sig>>

Fail(run, message) == [run EXCEPT !.pc = "failed", !.out = message]

Called_noAbort(run, tx, amount, sig, res) ==
    [run EXCEPT !.pc = "broadcast", !.tx = tx, !.amount = amount, !.sig = sig]

\* The outcome of bond.methods.<op>(...) / escrow.methods.<op>(...): the contract's
\* method runs locally and its failed assert throws.
Called(run, tx, amount, sig, res) ==
    IF res # "ok" THEN Fail(run, res)
    ELSE [run EXCEPT !.pc = "broadcast", !.tx = tx, !.amount = amount, !.sig = sig]

\* No state record: escrows/ holds no file whose name starts with the txid.
NoState ==
    [found |-> FALSE, amount |-> 0, timeoutBlock |-> 0,
     requesterAddress |-> <<>>, requesterPub |-> <<>>,
     workerAddress |-> <<>>, workerPub |-> <<>>]

\* deploy-escrow.cjs: the state record written for the Escrow e it deployed.
EscrowState(e) ==
    [found |-> TRUE, amount |-> e.value, timeoutBlock |-> e.timeoutBlock,
     requesterAddress |-> e.requesterPkh, requesterPub |-> e.requesterPub,
     workerAddress |-> e.workerPkh, workerPub |-> e.workerPub]

\* approve-escrow.cjs, timeout-escrow.cjs: new Escrow(...) from the fields of the state
\* record; escrow.from gives it the funding transaction's output.
EscrowFromState(state) ==
    [requesterPub |-> state.requesterPub,
     requesterPkh |-> state.requesterAddress,
     workerPub |-> state.workerPub,
     workerPkh |-> state.workerAddress,
     timeoutBlock |-> state.timeoutBlock,
     value |-> escrow.value,
     state |-> escrow.state]

ApproveRoleCheck_none(wallet) == TRUE

\* approve-escrow.cjs: requesterAddr !== state.requesterAddress
ApproveRoleCheck(wallet) == toAddress(wallet) = files.escrow.requesterAddress

Start ==
    /\ cli = NoRun
    /\ att = NoAttempt
    /\ \E kind \in CliKinds, wallet \in Keys :
        LET run == [NoRun EXCEPT !.kind = kind, !.wallet = wallet]
        IN cli' = CASE kind \in {"release", "slash"} -> [run EXCEPT !.pc = "check"]
                    [] ~files.escrow.found -> Fail(run, "Escrow state not found")
                    [] kind = "timeout" -> [run EXCEPT !.pc = "height"]
                    [] OTHER -> IF ApproveRoleCheck(wallet)
                                THEN [run EXCEPT !.pc = "call"]
                                ELSE Fail(run, "Wallet does not match requester")
    /\ UNCHANGED <<height, bond, escrow, spends, att, asrt, ver, view, dep, files>>

ReleaseCheckSpent ==
    /\ cli.kind = "release" /\ cli.pc = "check"
    /\ \E reply \in OracleReplies :
        cli' = IF IsSpentInfo(httpGetSpent(bond, reply))
               THEN Fail(cli, "Bond already spent")
               ELSE [cli EXCEPT !.pc = "height"]
    /\ UNCHANGED <<height, bond, escrow, spends, att, asrt, ver, view, dep, files>>

ReleaseGate_none(currentHeight, lockUntil) == FALSE

ReleaseGate_inclusive(currentHeight, lockUntil) == currentHeight <= lockUntil

\* release-bond.cjs: if (currentHeight < lockUntil) exit
ReleaseGate(currentHeight, lockUntil) == currentHeight < lockUntil

ReleaseTx(bondholderAddr, bondAmount, currentHeight) ==
    BuildTx(currentHeight, SEQ_LOCKTIME,
            [pkh |-> bondholderAddr, satoshis |-> bondAmount - RELEASE_FEE],
            bondholderAddr, 0)

ReleaseCall ==
    /\ cli.kind = "release" /\ cli.pc = "height"
    /\ LET bondholderKey == cli.wallet
           bondAmount == bond.value
           lockUntil == bond.lockUntil
           currentHeight == height
           tx == ReleaseTx(toAddress(bondholderKey), bondAmount, currentHeight)
           sigs == SigOfKey(getSignatures(bondholderKey, tx), bondholderKey)
           at == [cli EXCEPT !.currentHeight = currentHeight]
           run == [at EXCEPT !.built = tx]
       IN cli' = IF ReleaseGate(currentHeight, lockUntil)
                 THEN Fail(at, "Bond still locked")
                 ELSE IF sigs = <<>> THEN Fail(run, "TypeError")
                 ELSE Called(run, tx, bondAmount - RELEASE_FEE, sigs[1],
                             Bond_release(bond, sigs[1], tx))
    /\ UNCHANGED <<height, bond, escrow, spends, att, asrt, ver, view, dep, files>>

SlashCheckSpent ==
    /\ cli.kind = "slash" /\ cli.pc = "check"
    /\ \E reply \in OracleReplies :
        cli' = IF IsSpentInfo(httpGetSpent(bond, reply))
               THEN Fail(cli, "Bond already spent")
               ELSE [cli EXCEPT !.pc = "call"]
    /\ UNCHANGED <<height, bond, escrow, spends, att, asrt, ver, view, dep, files>>

SlashTx(slashDestAddr, outputAmount) ==
    BuildTx(0, SEQ_FINAL, [pkh |-> slashDestAddr, satoshis |-> outputAmount],
            slashDestAddr, 0)

SlashCall ==
    /\ cli.kind = "slash" /\ cli.pc = "call"
    /\ LET slasherKey == cli.wallet
           bondAmount == bond.value
           outputAmount == bondAmount - SLASH_FEE
           tx == SlashTx(bond.slashDestPkh, outputAmount)
           sigs == SigOfKeyOrFirst(getSignatures(slasherKey, tx), slasherKey)
           run == [cli EXCEPT !.built = tx]
       IN cli' = IF sigs = <<>> THEN Fail(run, "TypeError")
                 ELSE Called(run, tx, outputAmount, sigs[1], Bond_slash(bond, sigs[1], tx))
    /\ UNCHANGED <<height, bond, escrow, spends, att, asrt, ver, view, dep, files>>

ApproveTx(workerAddress, outputAmount) ==
    BuildTx(0, SEQ_FINAL, [pkh |-> workerAddress, satoshis |-> outputAmount],
            workerAddress, 0)

ApproveCall ==
    /\ cli.kind = "approve" /\ cli.pc = "call"
    /\ LET requesterKey == cli.wallet
           state == files.escrow
           outputAmount == state.amount - ESCROW_FEE
           tx == ApproveTx(state.workerAddress, outputAmount)
           sigs == SigOfKeyOrFirst(getSignatures(requesterKey, tx), requesterKey)
           run == [cli EXCEPT !.built = tx]
       IN cli' = IF sigs = <<>> THEN Fail(run, "TypeError")
                 ELSE Called(run, tx, outputAmount, sigs[1],
                             Escrow_approve(EscrowFromState(state), sigs[1],
                                            outputAmount, tx))
    /\ UNCHANGED <<height, bond, escrow, spends, att, asrt, ver, view, dep, files>>

TimeoutGate_none(currentHeight, timeoutBlock) == FALSE

\* timeout-escrow.cjs: if (currentHeight < state.timeoutBlock) exit
TimeoutGate(currentHeight, timeoutBlock) == currentHeight < timeoutBlock

TimeoutTx(requesterAddress, outputAmount, currentHeight) ==
    BuildTx(currentHeight, SEQ_LOCKTIME,
            [pkh |-> requesterAddress, satoshis |-> outputAmount],
            requesterAddress, 0)

TimeoutCall ==
    /\ cli.kind = "timeout" /\ cli.pc = "height"
    /\ LET requesterKey == cli.wallet
           state == files.escrow
           currentHeight == height
           outputAmount == state.amount - ESCROW_FEE
           tx == TimeoutTx(state.requesterAddress, outputAmount, currentHeight)
           sigs == SigOfKeyOrFirst(getSignatures(requesterKey, tx), requesterKey)
           at == [cli EXCEPT !.currentHeight = currentHeight]
           run == [at EXCEPT !.built = tx]
       IN cli' = IF TimeoutGate(currentHeight, state.timeoutBlock)
                 THEN Fail(at, "Not yet timed out")
                 ELSE IF sigs = <<>> THEN Fail(run, "TypeError")
                 ELSE Called(run, tx, outputAmount, sigs[1],
                             Escrow_timeout(EscrowFromState(state), sigs[1],
                                            outputAmount, tx))
    /\ UNCHANGED <<height, bond, escrow, spends, att, asrt, ver, view, dep, files>>

\* wocBroadcast(txhex): the ledger takes the transaction or the request is rejected.
Broadcast ==
    /\ cli.pc = "broadcast"
    /\ LET onBond == cli.kind \in {"release", "slash"}
           res == IF onBond THEN LedgerBond(cli.kind, cli.sig, cli.tx)
                  ELSE LedgerEscrow(cli.kind, cli.sig, cli.amount, cli.tx)
       IN /\ cli' = IF res = "ok" THEN [cli EXCEPT !.pc = "done", !.out = "ok"]
                    ELSE Fail(cli, "Broadcast failed")
          /\ bond' = IF onBond THEN BondAfter(cli.kind, res) ELSE bond
          /\ escrow' = IF onBond THEN escrow ELSE EscrowAfter(cli.kind, res)
          /\ spends' = IF onBond THEN [spends EXCEPT !.bond = @ + Count(res)]
                       ELSE [spends EXCEPT !.escrow = @ + Count(res)]
    /\ UNCHANGED <<height, att, asrt, ver, view, dep, files>>

\* The process ends (process.exit or the end of main).
Exit ==
    /\ cli.pc \in {"done", "failed"}
    /\ cli' = NoRun
    /\ UNCHANGED <<height, bond, escrow, spends, att, asrt, ver, view, dep, files>>

\* ------------------------------------------------------------ specification
\* lockUntil / timeoutBlock = deployment height + blocks: the next block, or the last.
LockHeights == {1, MaxHeight}

BondValues == {DEFAULT_AMOUNT}

EscrowValues == {ESCROW_FEE, DEFAULT_AMOUNT}

\* A JavaScript number: an integer, or NaN.
Num(n) == [nan |-> FALSE, v |-> n]

NaN == [nan |-> TRUE, v |-> 0]

\* No UTXO on the ledger, no state record on disk.
NoUtxo == [created |-> FALSE, txid |-> <<>>, value |-> 0]

NoRecord == [found |-> FALSE, key |-> <<>>, txid |-> <<>>, amount |-> NaN, lock |-> 0]

\* No deployment run. utxo and state are what the run has left on the ledger and on
\* disk, sent counts its calls of the broadcast.
NoDeploy ==
    [pc |-> "idle", kind |-> "none", amount |-> NaN, totalAvailable |-> 0,
     tx |-> NoFunding, out |-> "", sent |-> 0, utxo |-> NoUtxo, state |-> NoRecord]

Init ==
    /\ height = 0
    /\ \E l \in LockHeights, v \in BondValues : bond = NewBond(l, v)
    /\ \E t \in LockHeights, v \in EscrowValues : escrow = NewEscrow(t, v)
    /\ spends = [bond |-> 0, escrow |-> 0]
    /\ att = NoAttempt
    /\ cli = NoRun
    /\ asrt = NoAssert
    /\ ver = <<>>
    /\ view = NoView
    /\ dep = NoDeploy
    /\ files = [escrow |-> EscrowState(escrow)]

Next ==
    \/ ReleaseAttempt
    \/ SlashAttempt
    \/ ApproveAttempt
    \/ RefundAttempt
    \/ TimeoutAttempt
    \/ EndAttempt
    \/ Tick
    \/ Start
    \/ ReleaseCheckSpent
    \/ ReleaseCall
    \/ SlashCheckSpent
    \/ SlashCall
    \/ ApproveCall
    \/ TimeoutCall
    \/ Broadcast
    \/ Exit

Spec == Init /\ [][Next]_vars

\* The same actions run where escrows/ may hold no state record of the Escrow: on
\* another machine, or after the directory was cleared.
FileInit ==
    /\ height = 0
    /\ bond = NewBond(1, DEFAULT_AMOUNT)
    /\ \E t \in LockHeights : escrow = NewEscrow(t, DEFAULT_AMOUNT)
    /\ spends = [bond |-> 0, escrow |-> 0]
    /\ att = NoAttempt
    /\ cli = NoRun
    /\ asrt = NoAssert
    /\ ver = <<>>
    /\ view = NoView
    /\ dep = NoDeploy
    /\ files \in {[escrow |-> EscrowState(escrow)], [escrow |-> NoState]}

FileSpec == FileInit /\ [][Next]_vars

\* -------------------------------------------------------------- assertions
\* Buffers are sequences of byte values 0..255, strings sequences of code points,
\* hex strings sequences of hex digits.
HexDigits == <<"0", "1", "2", "3", "4", "5", "6", "7",
               "8", "9", "a", "b", "c", "d", "e", "f">>

\* The value of a hex digit, -1 for any other character.
hexValue(c) ==
    IF \E i \in 1..Len(HexDigits) : HexDigits[i] = c
    THEN (CHOOSE i \in 1..Len(HexDigits) : HexDigits[i] = c) - 1
    ELSE -1

RECURSIVE fromHex(_)
\* Buffer.from(str, 'hex'): one byte per pair of digits, up to the first bad pair.
fromHex(str) ==
    IF Len(str) < 2 \/ hexValue(str[1]) < 0 \/ hexValue(str[2]) < 0 THEN <<>>
    ELSE <<hexValue(str[1]) * 16 + hexValue(str[2])>> \o fromHex(SubSeq(str, 3, Len(str)))

RECURSIVE toHex(_)
\* buf.toString('hex')
toHex(buf) ==
    IF buf = <<>> THEN <<>>
    ELSE <<HexDigits[(buf[1] \div 16) + 1], HexDigits[(buf[1] % 16) + 1]>> \o toHex(Tail(buf))

\* buf.reverse()
reverse(buf) == [i \in 1..Len(buf) |-> buf[Len(buf) + 1 - i]]

REPLACEMENT == 65533

\* The UTF-8 bytes of one code point.
utf8Bytes(cp) ==
    IF cp < 128 THEN <<cp>>
    ELSE IF cp < 2048 THEN <<192 + (cp \div 64), 128 + (cp % 64)>>
    ELSE IF cp < 65536
         THEN <<224 + (cp \div 4096), 128 + ((cp \div 64) % 64), 128 + (cp % 64)>>
    ELSE <<240 + (cp \div 262144), 128 + ((cp \div 4096) % 64),
           128 + ((cp \div 64) % 64), 128 + (cp % 64)>>

RECURSIVE utf8Encode(_)
\* Buffer.from(str, 'utf8')
utf8Encode(str) ==
    IF str = <<>> THEN <<>> ELSE utf8Bytes(str[1]) \o utf8Encode(Tail(str))

RECURSIVE utf8Dec(_, _, _, _, _, _, _)
\* The UTF-8 decoder with replacement: an ill-formed sequence becomes U+FFFD, one per
\* maximal subpart, and the byte that ended it is read again.
utf8Dec(buf, i, cp, seen, needed, lower, upper) ==
    IF i > Len(buf) THEN (IF needed # 0 THEN <<REPLACEMENT>> ELSE <<>>)
    ELSE LET x == buf[i]
             fresh(j) == utf8Dec(buf, j, 0, 0, 0, 128, 191)
         IN IF needed = 0
            THEN IF x <= 127 THEN <<x>> \o fresh(i + 1)
                 ELSE IF x \in 194..223 THEN utf8Dec(buf, i + 1, x - 192, 0, 1, 128, 191)
                 ELSE IF x \in 224..239
                      THEN utf8Dec(buf, i + 1, x - 224, 0, 2,
                                   IF x = 224 THEN 160 ELSE 128,
                                   IF x = 237 THEN 159 ELSE 191)
                 ELSE IF x \in 240..244
                      THEN utf8Dec(buf, i + 1, x - 240, 0, 3,
                                   IF x = 240 THEN 144 ELSE 128,
                                   IF x = 244 THEN 143 ELSE 191)
                 ELSE <<REPLACEMENT>> \o fresh(i + 1)
            ELSE IF x \notin lower..upper THEN <<REPLACEMENT>> \o fresh(i)
            ELSE IF seen + 1 = needed THEN <<cp * 64 + (x - 128)>> \o fresh(i + 1)
            ELSE utf8Dec(buf, i + 1, cp * 64 + (x - 128), seen + 1, needed, 128, 191)

\* buf.toString('utf8')
utf8Decode(buf) == utf8Dec(buf, 1, 0, 0, 0, 128, 191)

\* crypto.createHash('sha256'): a hash without collisions.
sha256(buf) == <<"sha256", buf>>

\* bsv.crypto.ECDSA.sign(msgHash, privKey)
ECDSA_sign(msgHash, privKey) == Sign(privKey, msgHash)

ECDSA_verify_anyKey(sig, msgHash, pubkey) == sig.over = msgHash

\* ecdsa.verify() with hashbuf, sig and pubkey set
ECDSA_verify(sig, msgHash, pubkey) == checkSig(sig, pubkey, msgHash)

\* "ASSERT1" and the version byte
ASSERT1 == <<65, 83, 83, 69, 82, 84, 49>>

VERSION == <<1>>

\* Script chunks: an opcode, or a data push with its bytes; der is the signature the
\* bytes are the DER encoding of (NoEcSig for any other bytes).
OpChunk(op) == [op |-> op, buf |-> <<>>, der |-> NoEcSig]

Push(buf) == [op |-> "push", buf |-> buf, der |-> NoEcSig]

\* opReturn.add(Buffer.from(sigDER))
DerPush(sig) == [op |-> "push", buf |-> <<48>>, der |-> sig]

\* Buffer.concat([Buffer.from(bondTxid, 'hex'), Buffer.from(topic, 'utf8'),
\*                Buffer.from(claim, 'utf8')])
msgBuf(bondTxid, topic, claim) ==
    fromHex(bondTxid) \o utf8Encode(topic) \o utf8Encode(claim)

bondTxidPush_asIs(bondTxid) == fromHex(bondTxid)

\* Buffer.from(BOND_TXID, 'hex').reverse(): the txid little-endian
bondTxidPush(bondTxid) == reverse(fromHex(bondTxid))

\* assert.cjs: the OP_FALSE OP_RETURN data output
opReturn(bondTxid, topic, claim, sigDER) ==
    <<OpChunk("OP_FALSE"), OpChunk("OP_RETURN"), Push(utf8Encode(ASSERT1)), Push(VERSION),
      Push(bondTxidPush(bondTxid)), Push(utf8Encode(topic)), Push(utf8Encode(claim)),
      DerPush(sigDER)>>

\* bsv.Script.fromHex of the serialised script: a push of no bytes reads back as the
\* opcode OP_0, which has no buf.
chunks(script) ==
    [i \in 1..Len(script) |->
        IF script[i].op = "push" /\ script[i].buf = <<>> THEN OpChunk("OP_0")
        ELSE script[i]]

\* verify-assert.cjs: for (const chunk of chunks) if (chunk.buf) dataPushes.push(chunk.buf)
dataPushes(script) == SelectSeq(chunks(script), LAMBDA c : c.op = "push")

\* The txid of the deployed Bond, another txid, and the inputs of assert.cjs.
BondTxid == <<"a", "b", "0", "1">>

OtherTxid == <<"0", "1", "c", "d">>

Txids == {BondTxid, OtherTxid}

Topics == {<<97>>, <<97, 98>>, <<REPLACEMENT>>}

Claims == {<<99>>, <<98, 99>>}

AssertKeys == {"bondholder", "outsider"}

\* assert.cjs: const fee = 500, also the total at which the input loop stops.
ASSERT_FEE == 500

\* The UTXOs of the asserter's wallet: none, or one that covers the fee.
FundedOrNot == {<<>>, <<1000>>}

\* The wallets the funding is examined on: below, at and above the fee, in one UTXO or
\* in several.
Wallets == {<<>>, <<499>>, <<500>>, <<501>>, <<200, 200>>, <<200, 300, 1000>>,
            <<1000, 200>>}

RECURSIVE selectInputs(_, _)
\* for (const utxo of utxoResp) { tx.addInput(...); totalIn += utxo.value;
\*                                if (totalIn >= 500) break; }
selectInputs(utxoResp, totalIn) ==
    IF utxoResp = <<>> THEN <<>>
    ELSE IF totalIn + utxoResp[1] >= ASSERT_FEE THEN <<utxoResp[1]>>
    ELSE <<utxoResp[1]>> \o selectInputs(Tail(utxoResp), totalIn + utxoResp[1])

\* The bond status check of assert.cjs: a lookup that throws is caught and leaves
\* bondUtxos undefined; a bond this ledger does not hold is not found.
bondUtxos(bondTxid, reply) ==
    IF bondTxid = BondTxid THEN httpGetSpent(bond, reply) ELSE Null

\* A status check that warns on every run.
BondWarning_always(spentInfo) == TRUE

\* if (bondUtxos && bondUtxos.txid): the warning is printed.
BondWarning(spentInfo) == IsSpentInfo(spentInfo)

\* The outputs of the assertion transaction: the data output with 0 sats, then the
\* change when it is positive.
AssertOutputs(totalIn) ==
    LET change == totalIn - ASSERT_FEE
    IN <<0>> \o (IF change > 0 THEN <<change>> ELSE <<>>)

\* assert.cjs main on a wallet drawn from wallets: check the bond's status, fetch the
\* wallet's UTXOs, sign SHA256(bondTxid + topic + claim), build the data output, fund
\* the transaction, sign its inputs and broadcast. One assertion is followed at a
\* time: it is published once.
AssertMain(wallets) ==
    /\ asrt.out # "published"
    /\ \E privKey \in AssertKeys, bondTxid \in Txids, topic \in Topics, claim \in Claims,
          utxoResp \in wallets, statusReply \in OracleReplies,
          sendReply \in OracleReplies :
        LET msgHash == sha256(msgBuf(bondTxid, topic, claim))
            ecSig == ECDSA_sign(msgHash, privKey)
            inputs == selectInputs(utxoResp, 0)
            run == [NoAssert EXCEPT
                        !.warned = BondWarning(bondUtxos(bondTxid, statusReply)),
                        !.bondSpent = bondTxid = BondTxid /\ ~Unspent(bond)]
            tx == [inputs |-> inputs, outputs |-> AssertOutputs(Sum(inputs))]
        IN asrt' = IF utxoResp = <<>>
                   THEN [run EXCEPT !.out = "No UTXOs available to fund assertion tx"]
                   ELSE IF sendReply # "answer"
                   THEN [run EXCEPT !.out = "Broadcast failed", !.funding = tx,
                                    !.sent = 1]
                   ELSE [run EXCEPT !.out = "published",
                                    !.script = opReturn(bondTxid, topic, claim, ecSig),
                                    !.pubKey = toPublicKey(privKey),
                                    !.signer = privKey,
                                    !.args = [bondTxid |-> bondTxid, topic |-> topic,
                                              claim |-> claim],
                                    !.funding = tx, !.sent = 1]
    /\ asrt' # asrt
    /\ ver' = <<>>
    /\ UNCHANGED <<height, bond, escrow, spends, att, cli, view, dep, files>>

Publish == AssertMain(FundedOrNot)

\* Bytes an altered copy of the record may carry in place of an original byte.
TamperBytes == {98, 241}

\* The data pushes of bondTxid, topic and claim are chunks 5, 6 and 7 of the script.
TamperFields == {5, 6, 7}

\* Somebody republishes the record with one byte of its bondTxid, topic or claim
\* altered; the signature push and the signer's key stay as they are.
Tamper ==
    /\ asrt.out = "published" /\ ~asrt.tampered
    /\ \E f \in TamperFields :
        \E i \in 1..Len(asrt.script[f].buf), b \in TamperBytes :
            /\ b # asrt.script[f].buf[i]
            /\ asrt' = [asrt EXCEPT !.script[f].buf[i] = b, !.tampered = TRUE]
    /\ ver' = <<>>
    /\ UNCHANGED <<height, bond, escrow, spends, att, cli, view, dep, files>>

\* What a run of verify-assert.cjs prints.
Report(out, bondTxid, topic, claim, bondLine, bondAmount, pubKey) ==
    [out |-> out, bondTxid |-> bondTxid, topic |-> topic, claim |-> claim,
     bondLine |-> bondLine, bondAmount |-> bondAmount, pubKey |-> pubKey,
     spent |-> ~Unspent(bond)]

\* httpGet(.../tx/${bondTxid}): the deployed Bond's funding transaction, or nothing.
bondTxFound(bondTxid) == bondTxid = BondTxid

\* The second chunk of input 0's unlocking script: the key that funded the assertion.
asserterPubKey(tx) == tx.pubKey

\* bondActive: false only when the spent query returns a spending txid.
bondActive(reply) == ~IsSpentInfo(httpGetSpent(bond, reply))

\* verify-assert.cjs main on the transaction tx, the oracle answering the spent
\* query with reply.
VerifyAssert(tx, reply) ==
    LET pushes == dataPushes(tx.script)
    IN IF Len(pushes) < 5
       THEN Report("Not enough data pushes in OP_RETURN", <<>>, <<>>, <<>>, "none", 0, <<>>)
       ELSE IF utf8Decode(pushes[1].buf) # ASSERT1
       THEN Report("Not an ASSERT1 transaction", <<>>, <<>>, <<>>, "none", 0, <<>>)
       ELSE
       LET bondTxid == toHex(reverse(pushes[3].buf))
           topic == utf8Decode(pushes[4].buf)
           claim == utf8Decode(pushes[5].buf)
           bondAmount == bond.value
           active == bondActive(reply)
           bondLine == IF active THEN "ACTIVE" ELSE "SPENT"
           pubKey == asserterPubKey(tx)
           msgHash == sha256(msgBuf(bondTxid, topic, claim))
       IN IF ~bondTxFound(bondTxid)
          THEN Report("Bond tx not found", bondTxid, topic, claim, "none", 0, <<>>)
          ELSE IF Len(pushes) < 6 \/ pushes[6].der = NoEcSig
          THEN Report("Signature verification error", bondTxid, topic, claim,
                      bondLine, IF active THEN bondAmount ELSE 0, pubKey)
          ELSE IF ECDSA_verify(pushes[6].der, msgHash, pubKey)
          THEN Report("VERIFIED", bondTxid, topic, claim,
                      bondLine, IF active THEN bondAmount ELSE 0, pubKey)
          ELSE Report("SIGNATURE INVALID", bondTxid, topic, claim,
                      bondLine, IF active THEN bondAmount ELSE 0, pubKey)

Verify ==
    /\ asrt.out \in {"published", "foreign"}
    /\ Len(ver) < MaxReports
    /\ \E reply \in OracleReplies : ver' = Append(ver, VerifyAssert(asrt, reply))
    /\ UNCHANGED <<height, bond, escrow, spends, att, cli, asrt, view, dep, files>>

\* The bond is spent by a transaction the ledger accepts.
BondReleased == ReleaseAttempt /\ att'.res = "ok"

BondSlashed == SlashAttempt /\ att'.res = "ok"

\* One deployed Bond, locked until the next block; the Escrow plays no part here.
AssertInit ==
    /\ Init
    /\ bond.lockUntil = 1
    /\ escrow = NewEscrow(MaxHeight, DEFAULT_AMOUNT)

AssertNext ==
    \/ Publish
    \/ Tamper
    \/ Verify
    \/ BondReleased
    \/ BondSlashed
    \/ EndAttempt
    \/ Tick

AssertSpec == AssertInit /\ [][AssertNext]_vars

\* assert.cjs run again by the same wallet: another claim on the same topic and the
\* same bond, published after the first assertion was verified. The reports made so
\* far are kept.
PublishNext ==
    /\ asrt.out = "published" /\ ~asrt.tampered
    /\ ver # <<>> /\ Len(ver) < MaxReports
    /\ \E claim \in Claims \ {asrt.args.claim}, statusReply \in OracleReplies :
        LET bondTxid == asrt.args.bondTxid
            topic == asrt.args.topic
            msgHash == sha256(msgBuf(bondTxid, topic, claim))
            ecSig == ECDSA_sign(msgHash, asrt.signer)
        IN asrt' = [asrt EXCEPT !.script = opReturn(bondTxid, topic, claim, ecSig),
                                !.args.claim = claim,
                                !.warned = BondWarning(bondUtxos(bondTxid, statusReply)),
                                !.bondSpent = bondTxid = BondTxid /\ ~Unspent(bond)]
    /\ UNCHANGED <<height, bond, escrow, spends, att, cli, ver, view, dep, files>>

ManyNext ==
    \/ Publish
    \/ PublishNext
    \/ Verify
    \/ BondReleased
    \/ BondSlashed
    \/ EndAttempt
    \/ Tick

ManySpec == AssertInit /\ [][ManyNext]_vars

\* The signer republishes the record with the bytes of topic and claim divided anew
\* between the two pushes; the signature push and the funding key stay as they are.
\* The reports made so far are kept.
Regroup ==
    /\ asrt.out = "published" /\ ~asrt.tampered
    /\ LET bytes == asrt.script[6].buf \o asrt.script[7].buf
       IN \E i \in 0..Len(bytes) :
            /\ i # Len(asrt.script[6].buf)
            /\ asrt' = [asrt EXCEPT !.script[6] = Push(SubSeq(bytes, 1, i)),
                                    !.script[7] = Push(SubSeq(bytes, i + 1, Len(bytes))),
                                    !.tampered = TRUE]
    /\ UNCHANGED <<height, bond, escrow, spends, att, cli, ver, view, dep, files>>

ShiftNext ==
    \/ Publish
    \/ Regroup
    \/ Verify
    \/ Tick

ShiftSpec == AssertInit /\ [][ShiftNext]_vars

\* assert.cjs run on each of the wallets.
PublishFunded == AssertMain(Wallets)

FundNext ==
    \/ PublishFunded
    \/ Verify
    \/ BondReleased
    \/ BondSlashed
    \/ EndAttempt
    \/ Tick

FundSpec == AssertInit /\ [][FundNext]_vars

\* ------------------------------------------------------------------ viewer
\* Tags a data output of other software starts with: "ASSERT2", "ASSERT12", nothing.
OtherTags == {<<65, 83, 83, 69, 82, 84, 50>>, <<65, 83, 83, 69, 82, 84, 49, 50>>, <<>>}

\* The chunks of a data output: the two opcodes alone, or with four, five or all six
\* pushes of a record.
ChunkCounts == {2, 6, 7, 8}

\* Somebody publishes a data output that assert.cjs would not have built: a record
\* about the Bond cut short after n chunks, or carrying another tag.
PublishForeign ==
    /\ asrt.out = "none"
    /\ \E privKey \in AssertKeys, n \in ChunkCounts,
          tag \in OtherTags \cup {utf8Encode(ASSERT1)} :
        LET topic == <<97>>
            claim == <<99>>
            msgHash == sha256(msgBuf(BondTxid, topic, claim))
            full == opReturn(BondTxid, topic, claim, ECDSA_sign(msgHash, privKey))
            cut == SubSeq(full, 1, n)
            script == IF n >= 3 THEN [cut EXCEPT ![3] = Push(tag)] ELSE cut
        IN /\ script # full
           /\ asrt' = [NoAssert EXCEPT !.out = "foreign", !.script = script,
                                       !.pubKey = toPublicKey(privKey),
                                       !.signer = privKey]
    /\ UNCHANGED <<height, bond, escrow, spends, att, cli, ver, view, dep, files>>

\* The bytes of a script: OP_FALSE, OP_RETURN, and each push as its length and bytes.
RECURSIVE toBuffer(_)
toBuffer(script) ==
    IF script = <<>> THEN <<>>
    ELSE (CASE script[1].op = "OP_FALSE" -> <<0>>
            [] script[1].op = "OP_0" -> <<0>>
            [] script[1].op = "OP_RETURN" -> <<106>>
            [] OTHER -> <<Len(script[1].buf)>> \o script[1].buf)
         \o toBuffer(Tail(script))

\* String.prototype.includes
includes(str, search) ==
    \E i \in 0..(Len(str) - Len(search)) : SubSeq(str, i + 1, i + Len(search)) = search

\* null
NoParsed == [ok |-> FALSE, bondTxid |-> <<>>, topic |-> <<>>, claim |-> <<>>]

parseAssertOpReturn_anyTag(script) ==
    LET pushes == dataPushes(script)
    IN IF Len(pushes) < 5 THEN NoParsed
       ELSE [ok |-> TRUE,
             bondTxid |-> toHex(reverse(pushes[3].buf)),
             topic |-> utf8Decode(pushes[4].buf),
             claim |-> utf8Decode(pushes[5].buf)]

\* A parser that asks for the signature push as well.
parseAssertOpReturn_signed(script) ==
    LET pushes == dataPushes(script)
    IN IF Len(pushes) < 6 THEN NoParsed
       ELSE IF utf8Decode(pushes[1].buf) # ASSERT1 THEN NoParsed
       ELSE [ok |-> TRUE,
             bondTxid |-> toHex(reverse(pushes[3].buf)),
             topic |-> utf8Decode(pushes[4].buf),
             claim |-> utf8Decode(pushes[5].buf)]

\* viewer.cjs parseAssertOpReturn(hex)
parseAssertOpReturn(script) ==
    LET pushes == dataPushes(script)
    IN IF Len(pushes) < 5 THEN NoParsed
       ELSE IF utf8Decode(pushes[1].buf) # ASSERT1 THEN NoParsed
       ELSE [ok |-> TRUE,
             bondTxid |-> toHex(reverse(pushes[3].buf)),
             topic |-> utf8Decode(pushes[4].buf),
             claim |-> utf8Decode(pushes[5].buf)]

\* deploy-bond.cjs: the state record in bonds/ of the Bond b it deployed.
BondState(b) ==
    [bondTxid |-> BondTxid, amount |-> b.value, lockUntil |-> b.lockUntil,
     bondholderAddress |-> b.bondholderPkh, slashDest |-> b.slashDestPkh]

\* spentTx.vout[0]'s address: what the transaction that spent the Bond pays first.
spentTxDest == IF bond.state = "Released" THEN bond.bondholderPkh ELSE bond.slashDestPkh

\* viewer.cjs getBondStatus(bond), the oracle answering the spent query with
\* spentReply and the lookup of the spending transaction with txReply.
getBondStatus(b, spentReply, txReply) ==
    LET spent == httpGetSpent(bond, spentReply)
        isSpent == IsSpentInfo(spent)
        status == IF ~isSpent \/ txReply # "answer" THEN "ACTIVE"
                  ELSE IF spentTxDest = b.bondholderAddress THEN "RELEASED"
                  ELSE IF spentTxDest = b.slashDest THEN "SLASHED"
                  ELSE "SPENT"
    IN [bondTxid |-> b.bondTxid, amount |-> b.amount,
        bondholderAddress |-> b.bondholderAddress, isSpent |-> isSpent,
        status |-> status]

\* httpGet(.../address/${addr}/history): the transactions that spend from or pay to
\* addr; none when the request fails.
history(addr, reply) ==
    IF /\ reply = "answer"
       /\ asrt.out \in {"published", "foreign"}
       /\ toAddress(asrt.signer) = addr
    THEN <<asrt>>
    ELSE <<>>

\* viewer.cjs scanAssertions(bonds): the data outputs in the history of the
\* bondholder's address that carry the tag and parse.
scanAssertions(b, entries) ==
    LET addr == b.bondholderAddress
        listed(tx) ==
            /\ includes(toHex(toBuffer(chunks(tx.script))), toHex(utf8Encode(ASSERT1)))
            /\ parseAssertOpReturn(tx.script).ok
        entry(tx) ==
            LET parsed == parseAssertOpReturn(tx.script)
                found == b.bondTxid = parsed.bondTxid
            IN [asserter |-> addr, bondTxid |-> parsed.bondTxid, topic |-> parsed.topic,
                claim |-> parsed.claim,
                bondStatus |-> IF found THEN b.status ELSE "UNKNOWN",
                bondAmount |-> IF found THEN b.amount ELSE 0]
        kept == SelectSeq(entries, listed)
    IN [i \in 1..Len(kept) |-> entry(kept[i])]

\* spentTx.vout[0]'s address: what the transaction that spent the Escrow pays.
spentEscrowDest ==
    IF escrow.state = "Approved" THEN escrow.workerPkh ELSE escrow.requesterPkh

\* viewer.cjs getEscrowStatus(escrow) on the state record e, the oracle answering the
\* spent query with spentReply and the lookup of the spending transaction with txReply.
getEscrowStatus(e, spentReply, txReply) ==
    LET spent == httpGetSpent(escrow, spentReply)
        isSpent == IsSpentInfo(spent)
        status == IF ~isSpent \/ txReply # "answer" THEN "ACTIVE"
                  ELSE IF spentEscrowDest = e.workerAddress THEN "APPROVED"
                  ELSE IF spentEscrowDest = e.requesterAddress THEN "RETURNED"
                  ELSE "SPENT"
    IN [amount |-> e.amount, workerAddress |-> e.workerAddress,
        requesterAddress |-> e.requesterAddress, isSpent |-> isSpent,
        status |-> status]

\* The oracle's answers to the two queries about the Escrow. While its output is
\* unspent every answer gives the same result, so one stands for all.
EscrowReplies ==
    IF Unspent(escrow) THEN {<<"answer", "answer">>}
    ELSE OracleReplies \X OracleReplies

\* loadAndCheckEscrows: the status of each state record in escrows/.
loadAndCheckEscrows(replies) ==
    IF files.escrow.found
    THEN <<getEscrowStatus(files.escrow, replies[1], replies[2])>>
    ELSE <<>>

\* viewer.cjs: one request for the page, the chain info request answering; scanned
\* counts the transactions read from the address history, spent records whether the
\* Bond was spent at that time.
Scan ==
    /\ \E spentReply \in OracleReplies, txReply \in OracleReplies,
          historyReply \in OracleReplies, escrowReplies \in EscrowReplies :
        LET b == getBondStatus(BondState(bond), spentReply, txReply)
            entries == history(b.bondholderAddress, historyReply)
        IN view' = [out |-> "page", bonds |-> <<b>>,
                    assertions |-> scanAssertions(b, entries),
                    escrows |-> loadAndCheckEscrows(escrowReplies),
                    scanned |-> Len(entries),
                    spent |-> ~Unspent(bond)]
    /\ view' # view
    /\ UNCHANGED <<height, bond, escrow, spends, att, cli, asrt, ver, dep, files>>

\* The record is verified once.
VerifyOnce == Verify /\ ver = <<>>

ViewNext ==
    \/ Publish
    \/ PublishForeign
    \/ VerifyOnce
    \/ Scan
    \/ BondReleased
    \/ BondSlashed
    \/ EndAttempt
    \/ Tick

ViewSpec == AssertInit /\ [][ViewNext]_vars

\* The Escrow is spent by a transaction the ledger accepts.
EscrowApproved == ApproveAttempt /\ att'.res = "ok"

EscrowRefunded == RefundAttempt /\ att'.res = "ok"

EscrowTimedOut == TimeoutAttempt /\ att'.res = "ok"

\* deploy-bond.cjs --slash-dest: any address, the bondholder's own included.
SlashDests == {SlashDestPkh, toAddress("bondholder")}

\* deploy-escrow.cjs: the worker's key, which may be the requester's own.
Workers == {"worker", "requester"}

\* One Bond and one Escrow as deployed for each choice of the participants'
\* addresses, their state records on disk.
LabelInit ==
    /\ height = 0
    /\ \E d \in SlashDests :
        bond = [NewBond(1, DEFAULT_AMOUNT) EXCEPT !.slashDestPkh = d]
    /\ \E w \in Workers :
        escrow = [NewEscrow(1, DEFAULT_AMOUNT) EXCEPT !.workerPub = toPublicKey(w),
                                                      !.workerPkh = toAddress(w)]
    /\ spends = [bond |-> 0, escrow |-> 0]
    /\ att = NoAttempt
    /\ cli = NoRun
    /\ asrt = NoAssert
    /\ ver = <<>>
    /\ view = NoView
    /\ dep = NoDeploy
    /\ files = [escrow |-> EscrowState(escrow)]

LabelNext ==
    \/ Scan
    \/ BondReleased
    \/ BondSlashed
    \/ EscrowApproved
    \/ EscrowRefunded
    \/ EscrowTimedOut
    \/ EndAttempt
    \/ Tick

LabelSpec == LabelInit /\ [][LabelNext]_vars

\* -------------------------------------------------------------- deployment
DEPLOY_FEE == 3000

CHANGE_LIMIT == 546

\* The leading decimal digits of str.
RECURSIVE leadingDigits(_)
leadingDigits(str) ==
    IF str = <<>> \/ hexValue(str[1]) \notin 0..9 THEN <<>>
    ELSE <<hexValue(str[1])>> \o leadingDigits(Tail(str))

RECURSIVE decimal(_)
decimal(digits) ==
    IF digits = <<>> THEN 0
    ELSE decimal(SubSeq(digits, 1, Len(digits) - 1)) * 10 + digits[Len(digits)]

\* parseInt(str): an optional sign and the leading decimal digits; NaN without a digit.
parseInt(str) ==
    LET neg == str # <<>> /\ str[1] = "-"
        body == IF neg THEN Tail(str) ELSE str
        digits == leadingDigits(body)
    IN IF digits = <<>> THEN NaN
       ELSE Num(IF neg THEN 0 - decimal(digits) ELSE decimal(digits))

\* args.amount || '10000': the default stands in for a missing or empty argument.
AmountOf(arg) == parseInt(IF arg = <<>> THEN <<"1", "0", "0", "0", "0">> ELSE arg)

\* --amount: none, "0", "-5", "abc", "7000", "12abc"
AmountArgs ==
    {<<>>, <<"0">>, <<"-", "5">>, <<"a", "b", "c">>, <<"7", "0", "0", "0">>,
     <<"1", "2", "a", "b", "c">>}

\* The values of the unspent outputs at the deployer's address.
UtxoSets ==
    {<<>>, <<2999>>, <<3000>>, <<9999>>, <<10000>>, <<12999>>, <<9999, 3001>>,
     <<13546>>, <<13547>>}

\* --lock-blocks / --timeout-blocks
LockBlocks == {10}

\* a < b on numbers: false when either is NaN
LessThan(a, b) == ~a.nan /\ ~b.nan /\ a.v < b.v

Plus(a, b) == IF a.nan \/ b.nan THEN NaN ELSE Num(a.v + b.v)

Minus(a, b) == IF a.nan \/ b.nan THEN NaN ELSE Num(a.v - b.v)

\* bsv's Output: satoshis must be a natural number, or the constructor throws.
isNaturalNumber(n) == ~n.nan /\ n.v >= 0

hasDustOutputs_off(outputs) == FALSE

\* bsv's checked serialize(): an output below the dust amount, which is at least one
\* satoshi in every build, is an error.
hasDustOutputs(outputs) == \E i \in 1..Len(outputs) : outputs[i] < 1

\* The id of a transaction: its hash.
TxidOf(tx) == hash256(tx)

InsufficientFunds_none(totalAvailable, needed) == FALSE

\* deploy-bond.cjs: if (totalAvailable < needed) exit
InsufficientFunds(totalAvailable, needed) == LessThan(Num(totalAvailable), needed)

DeployFail(run, message) == [run EXCEPT !.pc = "failed", !.out = message]

\* A change rule that returns every positive change.
ChangeOutput_positive(change) == LessThan(Num(0), change)

\* deploy-bond.cjs: if (change > 546) the change output is added.
ChangeOutput(change) == LessThan(Num(CHANGE_LIMIT), change)

\* deploy-bond.cjs deploy(), up to the serialized funding transaction.
DeployBond ==
    /\ dep.pc = "idle"
    /\ \E arg \in AmountArgs, utxos \in UtxoSets, blocks \in LockBlocks,
          reply \in OracleReplies :
        LET AMOUNT == AmountOf(arg)
            lockUntil == height + blocks
            totalAvailable == Sum(utxos)
            needed == Plus(AMOUNT, Num(DEPLOY_FEE))
            change == Minus(Minus(Num(totalAvailable), AMOUNT), Num(DEPLOY_FEE))
            outputs == <<AMOUNT.v>> \o (IF ChangeOutput(change)
                                        THEN <<change.v>> ELSE <<>>)
            run == [NoDeploy EXCEPT !.kind = "bond", !.amount = AMOUNT,
                                    !.totalAvailable = totalAvailable,
                                    !.state = [NoRecord EXCEPT !.lock = lockUntil]]
        IN dep' = IF reply = "error" THEN DeployFail(run, "request failed")
                  ELSE IF utxos = <<>> THEN DeployFail(run, "No UTXOs")
                  ELSE IF InsufficientFunds(totalAvailable, needed)
                       THEN DeployFail(run, "Need more sats")
                  ELSE IF ~isNaturalNumber(AMOUNT)
                       THEN DeployFail(run, "Output satoshis is not a natural number")
                  ELSE IF hasDustOutputs(outputs)
                       THEN DeployFail(run, "Dust amount detected in one output")
                  ELSE [run EXCEPT !.pc = "broadcast",
                                   !.tx = [inputs |-> utxos, outputs |-> outputs]]
    /\ UNCHANGED <<height, bond, escrow, spends, att, cli, asrt, ver, view, files>>

\* The fee scrypt-ts reckons for the funding transaction of an Escrow.
LibFees == {1, 300}

\* deploy-escrow.cjs main, up to the broadcast inside escrow.deploy(AMOUNT): the
\* library takes the unspent outputs of the requester and returns the change.
DeployEscrow ==
    /\ dep.pc = "idle"
    /\ \E arg \in AmountArgs, utxos \in UtxoSets, blocks \in LockBlocks,
          fee \in LibFees, reply \in OracleReplies :
        LET AMOUNT == AmountOf(arg)
            timeoutBlock == height + blocks
            totalAvailable == Sum(utxos)
            change == Minus(Minus(Num(totalAvailable), AMOUNT), Num(fee))
            outputs == <<AMOUNT.v>> \o (IF LessThan(Num(0), change)
                                        THEN <<change.v>> ELSE <<>>)
            run == [NoDeploy EXCEPT !.kind = "escrow", !.amount = AMOUNT,
                                    !.totalAvailable = totalAvailable,
                                    !.state = [NoRecord EXCEPT !.lock = timeoutBlock]]
        IN dep' = IF reply = "error" THEN DeployFail(run, "request failed")
                  ELSE IF ~isNaturalNumber(AMOUNT)
                       THEN DeployFail(run, "Output satoshis is not a natural number")
                  ELSE IF LessThan(change, Num(0))
                       THEN DeployFail(run, "Invalid outputs amount sum")
                  ELSE IF hasDustOutputs(outputs)
                       THEN DeployFail(run, "Dust amount detected in one output")
                  ELSE [run EXCEPT !.pc = "broadcast",
                                   !.tx = [inputs |-> utxos, outputs |-> outputs]]
    /\ UNCHANGED <<height, bond, escrow, spends, att, cli, asrt, ver, view, files>>

SaveState_early(run, txid) ==
    [found |-> TRUE, key |-> TxidOf(run.tx), txid |-> TxidOf(run.tx),
     amount |-> run.amount, lock |-> run.state.lock]

\* The state record written once the broadcast has returned txid, named after it.
SaveState(run, txid) ==
    IF txid = <<>> THEN run.state
    ELSE [found |-> TRUE, key |-> txid, txid |-> txid, amount |-> run.amount,
          lock |-> run.state.lock]

\* wocBroadcast(txhex) / the provider's broadcast: the ledger takes the transaction
\* and returns its id, or the call fails; then the state record is saved.
DeployBroadcast ==
    /\ dep.pc = "broadcast"
    /\ \E reply \in OracleReplies :
        LET txid == IF reply = "answer" THEN TxidOf(dep.tx) ELSE <<>>
            sent == [dep EXCEPT !.sent = @ + 1, !.state = SaveState(dep, txid)]
        IN dep' = IF reply = "answer"
                  THEN [sent EXCEPT !.pc = "done", !.out = "deployed",
                                    !.utxo = [created |-> TRUE, txid |-> txid,
                                              value |-> dep.tx.outputs[1]]]
                  ELSE DeployFail(sent, "Broadcast failed")
    /\ UNCHANGED <<height, bond, escrow, spends, att, cli, asrt, ver, view, files>>

\* The process ends.
DeployExit ==
    /\ dep.pc \in {"done", "failed"}
    /\ dep' = NoDeploy
    /\ UNCHANGED <<height, bond, escrow, spends, att, cli, asrt, ver, view, files>>

DeployNext ==
    \/ DeployBond
    \/ DeployEscrow
    \/ DeployBroadcast
    \/ DeployExit
    \/ Tick

DeploySpec == AssertInit /\ [][DeployNext]_vars

\* ------------------------------------------------------------------ claims
\* The key whose signature an operation asks for, and the hash it must pay.
Role(op) ==
    CASE op = "release" -> "bondholder"
      [] op = "slash" -> "slasher"
      [] op = "refund" -> "worker"
      [] OTHER -> "requester"

TargetPkh(op) ==
    CASE op = "release" -> bond.bondholderPkh
      [] op = "slash" -> bond.slashDestPkh
      [] op = "approve" -> escrow.workerPkh
      [] OTHER -> escrow.requesterPkh

OnBond == att.contract = "bond"

OnEscrow == att.contract = "escrow"

\* The Bond's own required outputs: the full value to the target, then the change.
BondOutputsOk ==
    att.tx.outputs = buildPublicKeyHashOutput(TargetPkh(att.op), bond.value)
                        \o buildChangeOutput(att.tx)

\* The single output paying the amount argument to the target.
SingleOutputOk ==
    att.tx.outputs = buildPublicKeyHashOutput(TargetPkh(att.op), att.amount)

C3_ReleaseLockBoundary ==
    /\ (OnBond /\ att.op = "release" /\ att.signer = "bondholder" /\ att.before = "Open"
            /\ att.tx.locktime < bond.lockUntil)
        => att.res = "bond still locked"
    /\ (OnBond /\ att.op = "release" /\ att.signer = "bondholder" /\ att.before = "Open"
            /\ att.tx.locktime = bond.lockUntil /\ BondOutputsOk)
        => att.res = "ok"
    /\ (cli.kind = "release" /\ cli.currentHeight >= 0)
        => IF cli.currentHeight < bond.lockUntil
           THEN cli.pc = "failed" /\ cli.out = "Bond still locked"
           ELSE cli.out # "Bond still locked" /\ cli.out # "bond still locked"
                /\ cli.pc \in {"failed", "broadcast", "done"}

C3_Witness ==
    /\ OnBond /\ att.op = "release" /\ att.signer = "bondholder"
    /\ att.tx.locktime = bond.lockUntil /\ att.res = "ok"
    /\ cli.kind = "release" /\ cli.wallet = "bondholder"
    /\ cli.currentHeight < bond.lockUntil /\ cli.out = "Bond still locked"

AtLockTime0 == [att.tx EXCEPT !.locktime = 0]

\* C5: slash, approve and refund have no time gate: signed by the operation's role
\* and with the outputs the contract asks for, each is accepted on the unspent UTXO
\* at every height and lock time, and the contract's answer is the one it gives to
\* the same transaction at lock time 0.
C5_NoTimeGate ==
    /\ (OnBond /\ att.op = "slash" /\ att.before = "Open")
        => /\ att.res = Bond_slash(bond, Sign(att.signer, AtLockTime0), AtLockTime0)
           /\ (att.signer = "slasher" /\ BondOutputsOk) => att.res = "ok"
    /\ (OnEscrow /\ att.op = "approve" /\ att.before = "Open")
        => /\ att.res = Escrow_approve(escrow, Sign(att.signer, AtLockTime0),
                                       att.amount, AtLockTime0)
           /\ (att.signer = "requester" /\ att.amount > 0 /\ att.amount <= escrow.value
                  /\ SingleOutputOk) => att.res = "ok"
    /\ (OnEscrow /\ att.op = "refund" /\ att.before = "Open")
        => /\ att.res = Escrow_refund(escrow, Sign(att.signer, AtLockTime0),
                                      att.amount, AtLockTime0)
           /\ (att.signer = "worker" /\ att.amount > 0 /\ att.amount <= escrow.value
                  /\ SingleOutputOk) => att.res = "ok"

C5_Witness ==
    /\ bond.state = "Slashed" /\ height < bond.lockUntil
    /\ OnEscrow /\ att.op = "refund" /\ att.res = "ok"
    /\ att.tx.locktime = 0 /\ height < escrow.timeoutBlock

\* C6: only the signature of the operation's own role is ever accepted: an accepted
\* attempt is signed by that role, an attempt signed by another key on the unspent
\* UTXO fails the signature check, and a command-line action run with another key
\* never gets past the contract call, whichever signature its callback hands over.
C6_RoleSpecificSignature ==
    /\ att.res = "ok" => att.signer = Role(att.op)
    /\ (att.contract # "none" /\ att.before = "Open" /\ att.signer # Role(att.op))
        => att.res \in {"invalid bondholder signature", "invalid slasher signature",
                        "invalid requester signature", "invalid worker signature"}
    /\ cli.pc \in {"broadcast", "done"}
        => cli.wallet = Role(cli.kind) /\ cli.sig.by = toPublicKey(Role(cli.kind))
    /\ (cli.kind = "timeout" /\ cli.wallet # "requester" /\ cli.pc = "failed")
        => cli.out \in {"Not yet timed out", "invalid requester signature"}

C6_Witness ==
    /\ cli.kind = "timeout" /\ cli.wallet = "worker"
    /\ cli.currentHeight >= escrow.timeoutBlock
    /\ cli.pc = "failed" /\ cli.out = "invalid requester signature"
    /\ escrow.state = "Open"

\* C7 (as claimed): every accepted spend, of either contract, has as its outputs
\* exactly the single output paying the chosen amount to the operation's target hash.
C7_Claimed ==
    att.res = "ok" => SingleOutputOk

\* C8 (as claimed): a release or slash signed by its role (the lock time reached, for
\* release) and paying the chosen amount in a single output to the target is valid
\* exactly when 0 < amount <= the UTXO's value.
C8_Claimed ==
    (OnBond /\ att.before = "Open" /\ att.signer = Role(att.op)
        /\ (att.op = "release" => att.tx.locktime >= bond.lockUntil)
        /\ SingleOutputOk)
    => (att.res = "ok" <=> (att.amount > 0 /\ att.amount <= bond.value))

\* C9: approve, refund and timeout, past their signature (and lock time) checks,
\* answer 'invalid amount' exactly when amount <= 0 or amount > the UTXO's value; every
\* amount in (0, value], value itself included, passes, the same for the three.
C9_EscrowAmountRange ==
    (OnEscrow /\ att.before = "Open" /\ att.signer = Role(att.op)
        /\ (att.op = "timeout" => att.tx.locktime >= escrow.timeoutBlock))
    => /\ (att.res = "invalid amount") <=> (att.amount <= 0 \/ att.amount > escrow.value)
       /\ (att.amount > 0 /\ att.amount <= escrow.value /\ SingleOutputOk) => att.res = "ok"

C9_Witness ==
    /\ OnEscrow /\ att.op = "refund" /\ att.signer = "worker"
    /\ att.amount = escrow.value /\ att.res = "ok"

\* C10 (as claimed): a release or slash action run with its role's key that has passed
\* its gates never has its transaction turned down by the Bond contract.
C10_Claimed ==
    (cli.kind \in {"release", "slash"} /\ cli.wallet = Role(cli.kind)
        /\ cli.pc = "failed")
    => cli.out \in {"Bond already spent", "Bond still locked", "Broadcast failed"}

\* The answers with which a contract method turns a transaction down.
PredicateErrors ==
    {"invalid bondholder signature", "invalid slasher signature",
     "invalid requester signature", "invalid worker signature",
     "bond still locked", "escrow not yet timed out",
     "invalid amount", "hashOutputs mismatch"}

\* C11 (as claimed): an approve or timeout action run with the requester's key that has
\* passed its gates is never turned down by the Escrow contract, for every escrow
\* amount that can be deployed and persisted.
C11_Claimed ==
    (cli.kind \in {"approve", "timeout"} /\ cli.wallet = "requester"
        /\ cli.pc = "failed")
    => cli.out \notin PredicateErrors

\* What the contract of a run answers to the transaction the run has built.
RunVerdict ==
    IF cli.kind \in {"release", "slash"}
    THEN BondVerify(bond, cli.kind, cli.sig, cli.tx)
    ELSE EscrowVerify(escrow, cli.kind, cli.sig, cli.amount, cli.tx)

\* C12: no action broadcasts a transaction its contract turns down: a run is at or past
\* the broadcast only with a transaction the contract accepts, a run turned down by the
\* contract has handed nothing to the broadcast, and the ledger refuses a broadcast
\* only because the UTXO was spent meanwhile.
C12_NoFailingBroadcast ==
    /\ [](/\ cli.pc \in {"broadcast", "done"} => RunVerdict = "ok"
          /\ (cli.pc = "failed" /\ cli.out \in PredicateErrors) => cli.tx = NoTx
          /\ (cli.pc = "failed" /\ cli.out = "Broadcast failed")
                => /\ RunVerdict = "ok"
                   /\ IF cli.kind \in {"release", "slash"}
                      THEN ~Unspent(bond) ELSE ~Unspent(escrow))
    /\ [][(cli.pc \notin {"broadcast", "idle"} /\ cli' # cli /\ cli'.pc = "failed")
            => /\ cli'.out # "Broadcast failed"
               /\ bond' = bond /\ escrow' = escrow /\ spends' = spends]_vars

C12_Witness ==
    /\ cli.kind = "timeout" /\ cli.wallet = "requester" /\ cli.pc = "broadcast"
    /\ cli.tx.locktime >= escrow.timeoutBlock
    /\ escrow.state = "Open"

\* C13 (as claimed): an action whose contract UTXO is already spent, so that the
\* oracle's report of it is 'spent', does not go on to build, sign and broadcast.
C13_Claimed ==
    [][(/\ cli.pc \in {"check", "height", "call"}
        /\ IF cli.kind \in {"release", "slash"} THEN ~Unspent(bond) ELSE ~Unspent(escrow))
       => cli'.pc # "broadcast"]_vars

\* C14 (as claimed), with the scenario's heights taken relative to lockUntil: a release
\* by the bondholder at lock time lockUntil - 1 is turned down as still locked and leaves
\* the bond Open; at lock time lockUntil the release paying the bondholder value - fee in
\* a single output is accepted; a slash after the release is turned down as already spent.
C14_Claimed ==
    /\ (OnBond /\ att.op = "release" /\ att.signer = "bondholder" /\ att.before = "Open"
            /\ att.tx.locktime = bond.lockUntil - 1)
        => att.res = "bond still locked" /\ bond.state = "Open"
    /\ (OnBond /\ att.op = "release" /\ att.signer = "bondholder" /\ att.before = "Open"
            /\ att.tx.locktime = bond.lockUntil
            /\ att.tx.outputs = buildPublicKeyHashOutput(bond.bondholderPkh,
                                                         bond.value - RELEASE_FEE))
        => att.res = "ok"
    /\ (OnBond /\ att.op = "slash" /\ att.before = "Released")
        => att.res = "already spent"

Reports == {ver[i] : i \in 1..Len(ver)}

\* The fields a decoder reads from the record on the chain.
Decoded ==
    LET pushes == dataPushes(asrt.script)
    IN [bondTxid |-> toHex(reverse(pushes[3].buf)),
        topic |-> utf8Decode(pushes[4].buf),
        claim |-> utf8Decode(pushes[5].buf)]

\* C16: decoding the record the encoder produced gives back the bond txid (the byte
\* reversal undone), the topic and the claim it was given, and the record's signature
\* verifies against the public key of the key that encoded it; every verification run
\* on the record reads the same three fields and, the bond found, reports VERIFIED
\* with that key.
C16_AssertRoundTrip ==
    (asrt.out = "published" /\ ~asrt.tampered)
    => /\ Len(dataPushes(asrt.script)) = 6
       /\ Decoded = asrt.args
       /\ ECDSA_verify(dataPushes(asrt.script)[6].der,
                       sha256(msgBuf(Decoded.bondTxid, Decoded.topic, Decoded.claim)),
                       toPublicKey(asrt.signer))
       /\ \A r \in Reports :
            /\ r.bondTxid = asrt.args.bondTxid
            /\ r.topic = asrt.args.topic
            /\ r.claim = asrt.args.claim
            /\ r.out = IF bondTxFound(asrt.args.bondTxid) THEN "VERIFIED"
                       ELSE "Bond tx not found"
            /\ r.out = "VERIFIED" => r.pubKey = toPublicKey(asrt.signer)

C16_Witness ==
    /\ asrt.out = "published" /\ ~asrt.tampered
    /\ asrt.args = [bondTxid |-> BondTxid, topic |-> <<97, 98>>, claim |-> <<98, 99>>]
    /\ Len(ver) = 1 /\ ver[1].out = "VERIFIED"
    /\ ver[1].topic = <<97, 98>> /\ ver[1].bondTxid = BondTxid

\* C17 (as claimed): a record with one byte of its bondTxid, topic or claim altered
\* after signing is never reported VERIFIED.
C17_Claimed ==
    asrt.tampered => \A r \in Reports : r.out # "VERIFIED"

\* C18 (as claimed): a verification reports the bond ACTIVE, with the bond's value as
\* the weight, exactly when the bond UTXO is unspent at the time of the run, and SPENT
\* whenever it is spent.
C18_Claimed ==
    \A r \in Reports :
        r.bondLine # "none"
        => /\ (r.bondLine = "ACTIVE" /\ r.bondAmount = bond.value) <=> ~r.spent
           /\ r.spent => r.bondLine = "SPENT" /\ r.bondAmount = 0

\* C19 (as claimed): of two verifications of the same record, the first run while the
\* bond is unspent and the second after it was released or slashed, both give the same
\* signature result, the first reports the bond ACTIVE with its value and the second
\* reports it SPENT with no backing.
C19_Claimed ==
    (Len(ver) = 2 /\ ~ver[1].spent /\ ver[2].spent /\ ver[1].bondLine # "none")
    => /\ ver[1].out = ver[2].out
       /\ ver[1].bondLine = "ACTIVE" /\ ver[1].bondAmount = bond.value
       /\ ver[2].bondLine = "SPENT" /\ ver[2].bondAmount = 0

\* C20 (as claimed): a record is reported VERIFIED only when the key its signature is
\* checked against is the bondholder key of the bond it references.
C20_Claimed ==
    \A r \in Reports : r.out = "VERIFIED" => r.pubKey = bond.bondholderPub

\* The pushes of the published data output as they are in its script.
RawPushes == SelectSeq(asrt.script, LAMBDA c : c.op = "push")

\* A data output with fewer than five data pushes, or whose first push is not the tag.
MalformedRecord ==
    /\ asrt.out \in {"published", "foreign"}
    /\ \/ Len(RawPushes) < 5
       \/ RawPushes[1].buf # utf8Encode(ASSERT1)

MalformedOuts == {"Not enough data pushes in OP_RETURN", "Not an ASSERT1 transaction"}

\* C21: a data output with fewer than five data pushes, or whose first push is not
\* 'ASSERT1', is rejected by verify-assert.cjs as malformed before the bond is looked
\* up or a signature checked (the report names no bond line and no key), is never
\* reported VERIFIED, and is never listed as an assertion by the viewer.
C21_MalformedRejected ==
    MalformedRecord =>
        /\ \A r \in Reports :
            r.out \in MalformedOuts /\ r.bondLine = "none" /\ r.pubKey = <<>>
        /\ view.assertions = <<>>

\* A record with all six pushes under the tag "ASSERT12", funded by the bondholder,
\* has been verified and read by the viewer from the address history.
C21_Witness ==
    /\ MalformedRecord
    /\ Len(RawPushes) = 6
    /\ includes(RawPushes[1].buf, utf8Encode(ASSERT1))
    /\ ver # <<>>
    /\ view.scanned = 1

\* C22: in a run of an action the broadcast is invoked at most once, only after the
\* local checks have passed and the run's one transaction has been built; a failed
\* check and a failed broadcast each end the run, which is never retried.
C22_SingleBroadcast ==
    [][cli' # cli =>
        /\ cli'.pc = "broadcast"
              => /\ cli.pc \in {"call", "height"}
                 /\ cli.tx = NoTx /\ cli'.tx # NoTx
                 /\ RunVerdict' = "ok"
        /\ cli.pc = "broadcast" => cli'.pc \in {"done", "failed"} /\ cli'.tx = cli.tx
        /\ cli.pc \in {"done", "failed"} => cli' = NoRun
        /\ cli.pc # "broadcast" => spends' = spends /\ bond' = bond /\ escrow' = escrow]_vars

\* A run whose broadcast the ledger refused has ended in a failure.
C22_Witness == cli.pc = "failed" /\ cli.out = "Broadcast failed" /\ cli.tx # NoTx

\* The lock height of the contract a run of a time-gated action spends.
Threshold == IF cli.kind = "release" THEN bond.lockUntil ELSE escrow.timeoutBlock

\* C23: every transaction a release or timeout run builds has a lock time at or past
\* the contract's threshold and the input sequence number 0xFFFFFFFE, never
\* 0xFFFFFFFF, and so has every such transaction that reaches the broadcast.
C23_LockTimeActive ==
    (cli.kind \in {"release", "timeout"} /\ cli.built # NoTx)
        => /\ cli.built.locktime >= Threshold
           /\ cli.built.sequence = SEQ_LOCKTIME
           /\ cli.built.sequence # SEQ_FINAL
           /\ cli.pc \in {"broadcast", "done"} => cli.tx = cli.built

\* A release run by the bondholder has built its transaction at the lock height.
C23_Witness ==
    /\ cli.kind = "release" /\ cli.wallet = "bondholder"
    /\ cli.built # NoTx /\ cli.built.locktime = bond.lockUntil

\* C24 (as claimed): every spending transaction an action builds has exactly one
\* output, and it pays the recipient the contract fixes for the operation (the
\* bondholder's hash for release, the slash destination for slash, the worker for
\* approve, the requester for timeout), whatever wallet runs the action.
C24_Claimed ==
    cli.built # NoTx
        => /\ Len(cli.built.outputs) = 1
           /\ cli.built.outputs[1].pkh = TargetPkh(cli.kind)

\* C25 (as claimed): an action run with a wallet whose key is not the role the
\* operation requires ends in a failure before any transaction is built or broadcast.
C25_Claimed ==
    (cli.kind \in CliKinds /\ cli.wallet # Role(cli.kind))
        => /\ cli.built = NoTx
           /\ cli.pc \notin {"broadcast", "done"}

\* C26: a Bond deployment whose unspent outputs total less than amount + 3000, or
\* that finds none, fails before the broadcast with no transaction sent, no UTXO and
\* no state record; a deployment that has broadcast spends inputs of at least
\* amount + 3000.
C26_DeployFunds ==
    /\ (/\ dep.kind = "bond" /\ ~dep.amount.nan
         /\ \/ dep.totalAvailable < dep.amount.v + DEPLOY_FEE
            \/ dep.totalAvailable = 0)
            => /\ dep.pc = "failed" /\ dep.sent = 0 /\ dep.tx = NoFunding
               /\ ~dep.utxo.created /\ ~dep.state.found
    /\ (dep.kind = "bond" /\ (dep.sent > 0 \/ dep.pc = "broadcast"))
            => /\ ~dep.amount.nan
               /\ Sum(dep.tx.inputs) >= dep.amount.v + DEPLOY_FEE

\* A deployment of 10000 satoshis with 12999 available has failed for want of one.
C26_Witness ==
    /\ dep.kind = "bond" /\ dep.pc = "failed" /\ dep.out = "Need more sats"
    /\ dep.amount = Num(DEFAULT_AMOUNT) /\ dep.totalAvailable = 12999

C28_NoPartialEffects ==
    /\ dep.pc = "failed" => ~dep.utxo.created /\ ~dep.state.found
    /\ dep.state.found
            => /\ dep.pc = "done" /\ dep.sent = 1 /\ dep.utxo.created
               /\ dep.state.key = dep.utxo.txid /\ dep.state.txid = dep.utxo.txid
               /\ dep.state.amount = Num(dep.utxo.value)

\* The broadcast of a built funding transaction has failed.
C28_Witness == dep.pc = "failed" /\ dep.out = "Broadcast failed" /\ dep.sent = 1

\* C29 (as claimed): the field values a spending action on an Escrow uses are those
\* the Escrow was deployed with, rebuilt from the funding transaction alone: no run
\* depends on a stored state record.
C29_Claimed ==
    cli.kind \in {"approve", "timeout"}
        => /\ EscrowFromState(files.escrow) = escrow
           /\ cli.out # "Escrow state not found"

\* C30 (as claimed): publishing or verifying an assertion leaves the Bond UTXO as it
\* is, and the verifications of two different assertions on the same bond, made while
\* the bond is in the same state, report the same liveness and the same weight:
\* backed while it is unspent, unbacked once it is released or slashed.
C30_Claimed ==
    /\ [][(asrt' # asrt \/ ver' # ver) => (bond' = bond /\ spends' = spends)]_vars
    /\ [](\A r1 \in Reports, r2 \in Reports :
            (/\ r1.bondLine # "none" /\ r2.bondLine # "none"
             /\ r1.bondTxid = r2.bondTxid
             /\ r1.claim # r2.claim
             /\ r1.spent = r2.spent)
            => /\ r1.bondLine = r2.bondLine
               /\ r1.bondAmount = r2.bondAmount)

\* C31: under the Bond of bond.ts release and slash take a signature alone, and a
\* spend is accepted only with the outputs being exactly the full UTXO value paid to
\* bondholderPkh (release) or slashDestPkh (slash) followed by the change output; a
\* spend signed by its role, the lock time reached, whose payout is below the full
\* value is turned down with 'hashOutputs mismatch'.
C31_FullValueSweep ==
    (OnBond /\ att.before = "Open")
    => /\ att.res = "ok" => BondOutputsOk
       /\ (/\ att.signer = Role(att.op)
           /\ (att.op = "release" => att.tx.locktime >= bond.lockUntil)
           /\ att.tx.outputs[1].satoshis < bond.value)
          => att.res = "hashOutputs mismatch"

\* The bondholder's release at the lock height paying the value less the fee of
\* release-bond.cjs has been turned down.
C31_Witness ==
    /\ OnBond /\ att.op = "release" /\ att.signer = "bondholder" /\ att.before = "Open"
    /\ att.tx.locktime >= bond.lockUntil
    /\ att.tx.outputs = buildPublicKeyHashOutput(bond.bondholderPkh,
                                                 bond.value - RELEASE_FEE)
    /\ att.res = "hashOutputs mismatch"

\* C32: publishing an assertion is not gated on the bond being live. No run of
\* assert.cjs ends because of the bond's status: a run ends published, without UTXOs
\* or with a failed broadcast; the spent-bond warning is printed only when the bond's
\* output is spent, and a run that was warned, or whose lookup failed on a spent bond,
\* has gone on to build and send its transaction all the same.
C32_NotGated ==
    /\ asrt.out \in {"none", "published", "Broadcast failed",
                     "No UTXOs available to fund assertion tx"}
    /\ asrt.warned => asrt.bondSpent
    /\ (asrt.bondSpent /\ asrt.funding # NoFunding) => asrt.sent = 1

\* An assertion about the Bond was published although the run was warned that the
\* Bond is spent: it is unbacked from its first moment.
C32_Witness ==
    /\ asrt.out = "published" /\ asrt.warned /\ asrt.bondSpent /\ asrt.sent = 1
    /\ asrt.args.bondTxid = BondTxid /\ ~Unspent(bond)

\* C33 (as claimed): a run of release-bond.cjs or slash-bond.cjs goes past its spent
\* check, on to building and broadcasting, only when the bond's output is unspent.
C33_Claimed ==
    [][(/\ cli.kind \in {"release", "slash"} /\ cli.pc = "check"
        /\ cli'.pc \in {"height", "call"})
       => Unspent(bond)]_vars

\* C34 (as claimed): in every bond the viewer's page shows, the status is ACTIVE
\* exactly when the spent query found no spending transaction.
C34_Claimed ==
    view.out = "page"
    => \A i \in 1..Len(view.bonds) :
           (view.bonds[i].status = "ACTIVE") <=> ~view.bonds[i].isSpent

\* C35 (as claimed): the label the viewer shows for a spent Bond or Escrow matches the
\* operation that spent it, for every choice of the participants' addresses: a slashed
\* Bond is never RELEASED and a released one never SLASHED; an Escrow spent by refund
\* or timeout is never APPROVED and an approved one never RETURNED.
C35_Claimed ==
    view.out = "page"
    => /\ \A i \in 1..Len(view.bonds) :
            /\ view.bonds[i].status = "RELEASED" => bond.state # "Slashed"
            /\ view.bonds[i].status = "SLASHED" => bond.state # "Released"
       /\ \A i \in 1..Len(view.escrows) :
            /\ view.escrows[i].status = "APPROVED"
                => escrow.state \notin {"Refunded", "TimedOut"}
            /\ view.escrows[i].status = "RETURNED" => escrow.state # "Approved"

\* C36 (as claimed): an assertion in the viewer's list carries a non-zero bondAmount
\* only when its bond's status is ACTIVE; under RELEASED, SLASHED, SPENT or UNKNOWN it
\* is shown with no backing amount.
C36_Claimed ==
    view.out = "page"
    => \A i \in 1..Len(view.assertions) :
           view.assertions[i].bondAmount # 0 => view.assertions[i].bondStatus = "ACTIVE"

\* C37 (as claimed): the signature binds the whole (bondTxid, topic, claim) triple. Of
\* the verification runs on records that carry one signature and one signer's key, no
\* two that read different triples both report VERIFIED; moving bytes across the
\* boundary of topic and claim makes the verification fail.
C37_Claimed ==
    \A i, j \in 1..Len(ver) :
        (/\ ver[i].pubKey = ver[j].pubKey
         /\ <<ver[i].bondTxid, ver[i].topic, ver[i].claim>>
                # <<ver[j].bondTxid, ver[j].topic, ver[j].claim>>)
        => ~(ver[i].out = "VERIFIED" /\ ver[j].out = "VERIFIED")

\* A record under the tag ASSERT1 with exactly five data pushes: no signature push.
FivePushRecord ==
    /\ asrt.out = "foreign"
    /\ Len(dataPushes(asrt.script)) = 5
    /\ utf8Decode(dataPushes(asrt.script)[1].buf) = ASSERT1

\* C38: a record with exactly five data pushes is never reported verified: every run
\* of verify-assert.cjs on it ends in a signature verification error. The viewer, when
\* it reads the record from the bondholder's history, parses it and lists it as an
\* assertion with the record's bond, topic and claim.
C38_FivePushes ==
    FivePushRecord
    => /\ \A r \in Reports : r.out = "Signature verification error"
       /\ (view.out = "page" /\ view.scanned = 1)
          => /\ Len(view.assertions) = 1
             /\ view.assertions[1].bondTxid = BondTxid
             /\ view.assertions[1].topic = <<97>>
             /\ view.assertions[1].claim = <<99>>

\* A five-push record was run through verify-assert.cjs, which ended in the signature
\* verification error, and the viewer's page lists it.
C38_Witness ==
    /\ FivePushRecord
    /\ Len(ver) = 1 /\ ver[1].out = "Signature verification error"
    /\ view.out = "page" /\ view.scanned = 1 /\ Len(view.assertions) = 1
    /\ view.assertions[1].bondStatus = "ACTIVE"

\* C39: satoshis are conserved in a Bond deployment. The funding transaction a run
\* has built spends all of the bondholder's unspent outputs; its output 0 carries
\* exactly the amount; a second output returns totalAvailable - amount - 3000 exactly
\* when that change exceeds 546; so the fee it leaves is at least 3000 and at most
\* 3000 + 546.
C39_Conserved ==
    (dep.kind = "bond" /\ dep.tx # NoFunding)
    => LET total == Sum(dep.tx.inputs)
           change == total - dep.amount.v - DEPLOY_FEE
           fee == total - Sum(dep.tx.outputs)
       IN /\ ~dep.amount.nan
          /\ total = dep.totalAvailable
          /\ Len(dep.tx.outputs) \in {1, 2}
          /\ dep.tx.outputs[1] = dep.amount.v
          /\ (Len(dep.tx.outputs) = 2) <=> (change > CHANGE_LIMIT)
          /\ Len(dep.tx.outputs) = 2 => dep.tx.outputs[2] = change
          /\ fee >= DEPLOY_FEE /\ fee <= DEPLOY_FEE + CHANGE_LIMIT

\* A deployment of 10000 satoshis from 13546 was broadcast without a change output:
\* the change of 546 went to the fee.
C39_Witness ==
    /\ dep.kind = "bond" /\ dep.pc = "done" /\ dep.sent = 1
    /\ dep.amount = Num(DEFAULT_AMOUNT) /\ dep.totalAvailable = 13546
    /\ dep.tx = [inputs |-> <<13546>>, outputs |-> <<DEFAULT_AMOUNT>>]

\* C40 (as claimed): an assertion transaction is handed to the broadcast only when its
\* inputs cover the fee of 500: the inputs are the first prefix of the wallet's
\* outputs that totals at least 500, output 0 is the data output with no value, the
\* change of totalIn - 500 is returned exactly when it is positive, and a run on a
\* wallet totalling less than 500 has failed without sending anything.
C40_Claimed ==
    asrt.sent > 0
    => LET inputs == asrt.funding.inputs
           outputs == asrt.funding.outputs
           totalIn == Sum(inputs)
       IN /\ totalIn >= ASSERT_FEE
          /\ \A k \in 1..(Len(inputs) - 1) : Sum(SubSeq(inputs, 1, k)) < ASSERT_FEE
          /\ outputs[1] = 0
          /\ (Len(outputs) = 2) <=> (totalIn - ASSERT_FEE > 0)
          /\ Len(outputs) = 2 => outputs[2] = totalIn - ASSERT_FEE

====
